---- MODULE Spec2Model ----
(***************************************************************************)
(* The split virtqueue of src/src/queue.rs: the driver side (VirtQueue),   *)
(* the shared descriptor table, available ring and used ring, the test     *)
(* device fake_write_to_queue, and a device that completes chains in any   *)
(* order.  Driver stores reach the shared memory either at once (Spec) or  *)
(* through a store buffer that drains in any order and that a fence waits  *)
(* for (SpecFine, where add is split into its individual steps).           *)
(***************************************************************************)
EXTENDS Integers, Sequences, FiniteSets, TLC

(* ------------------------------ bounds --------------------------------- *)
\* Descriptors the caller submits in one behaviour, over all its add calls.
MaxDescs == 4
\* The same, in behaviours where add runs write by write.
MaxFineDescs == 3
\* The same, in behaviours where the caller only uses add_notify_wait_pop.
MaxWaitDescs == 2
\* The same, in behaviours of a queue of the size the tests use.
MaxTestDescs == 3
\* The same, in behaviours that start near the wrap of the u16 counters.
MaxWrapDescs == 3
\* Longest payload a device writes into one chain.
MaxData == 2
\* Caller buffers have lengths 0..MaxBufLen.
MaxBufLen == 2
\* The maximum queue size the transport declares.
MaxQueueSize == 2

(* ------------------------- program constants --------------------------- *)
\* u16 counters wrap at 2^16 (wrapping_add on avail_idx, last_used_idx).
U16 == 65536
\* The queue index the tests construct their queue with.
QueueIdx == 0
\* bitflags! DescFlags
NEXT == 1
WRITE == 2
INDIRECT == 4
\* ring: [u16; 32] in AvailRing, ring: [UsedElem; 32] in UsedRing
RingLen == 32
\* The queue size and transport maximum of the tests.
TestSize == 4

(* ------------------------------ helpers -------------------------------- *)
RECURSIVE BitAnd(_, _)
\* a & b on naturals.
BitAnd(a, b) ==
    IF a = 0 \/ b = 0 THEN 0
    ELSE (a % 2) * (b % 2) + 2 * BitAnd(a \div 2, b \div 2)

\* DescFlags::contains for a single flag bit.
contains(flags, bit) == (flags \div bit) % 2 = 1
\* DescFlags | bit
insert(flags, bit) == IF contains(flags, bit) THEN flags ELSE flags + bit
\* DescFlags::remove
remove(flags, bit) == IF contains(flags, bit) THEN flags - bit ELSE flags

\* u16::is_power_of_two
is_power_of_two(x) == x # 0 /\ BitAnd(x, x - 1) = 0
\* u16::wrapping_add(1)  (mutants: the counter leaves 16 bits; the counter
\* stops at its maximum)
wrapping_add1_unbounded(x) == x + 1
wrapping_add1_saturating(x) == IF x + 1 = U16 THEN x ELSE x + 1
wrapping_add1(x) == (x + 1) % U16

\* Option<u16>
None == << >>
Some(x) == << x >>

Min(a, b) == IF a <= b THEN a ELSE b

(* --------------------------- caller buffers ---------------------------- *)
\* The caller owns NBufs buffers; buffer b has BufLen(b) bytes.
NBufs == 2 * MaxQueueSize + 1
Buffers == 1 .. NBufs
BufLen(b) == b % (MaxBufLen + 1)
Zeros(n) == [i \in 1 .. n |-> 0]
\* The payload of n bytes a device writes: byte i has value i.
Data(n) == [i \in 1 .. n |-> i]

\* BufferDirection
DriverToDevice == "DriverToDevice"
DeviceToDriver == "DeviceToDriver"

\* Hal::share: the physical (bounce) address the device is given for b.
share(b) == NBufs + b
\* The buffer behind physical address p.
buf_of(p) == p - NBufs
PAddrs == {share(b) : b \in Buffers}

\* input_output_iter: inputs then outputs, each paired with its direction.
input_output_iter(inputs, outputs) ==
    [i \in 1 .. Len(inputs) |-> [buf |-> inputs[i], dir |-> DriverToDevice]]
    \o [i \in 1 .. Len(outputs) |-> [buf |-> outputs[i], dir |-> DeviceToDriver]]

(* ------------------------------- state --------------------------------- *)
VARIABLES
    created,        \* a VirtQueue has been constructed
    queue_idx, queue_size, num_used, free_head, avail_idx, last_used_idx,
    desc,           \* descriptor table as the device sees it
    avail,          \* available ring as the device sees it
    used,           \* used ring
    sb,             \* driver stores not yet visible to the device
    weak,           \* stores go through sb (SpecFine) or straight to memory
    pc, loc,        \* position and locals of an add in progress (SpecFine)
    transport,      \* queues registered by queue_set, notifications
    shared,         \* Hal: <<paddr, buffer, direction>> shared and not unshared
    budget,         \* caller: descriptors it may still submit
    devmem,         \* contents of the memory at each shared physical address
    chains,         \* caller: token -> buffers of each chain not yet popped
    dev,            \* device: next available index, chains taken, kind
    done,           \* completions written by the device and not yet popped
    op,             \* the last call and what it returned
    panicked        \* a fatal assertion failed

qvars == <<created, queue_idx, queue_size, num_used, free_head, avail_idx,
           last_used_idx>>
memvars == <<desc, avail, used, sb>>
vars == <<created, queue_idx, queue_size, num_used, free_head, avail_idx,
          last_used_idx, desc, avail, used, sb, weak, pc, loc, transport,
          shared, budget, devmem, chains, dev, done, op, panicked>>

(* --------------------------- shared memory ----------------------------- *)
\* One store of the driver: k names the field, i the descriptor or ring slot.
Store(k, i, v) == [k |-> k, i |-> i, v |-> v]

\* The descriptor table after store w.
ApplyDesc(d, w) ==
    IF w.k \in {"addr", "len", "flags", "next"}
    THEN [d EXCEPT ![w.i] = [@ EXCEPT ![w.k] = w.v]]
    ELSE d

\* The available ring after store w.
ApplyAvail(a, w) ==
    IF w.k = "ring" THEN [a EXCEPT !.ring = [@ EXCEPT ![w.i] = w.v]]
    ELSE IF w.k = "idx" THEN [a EXCEPT !.idx = w.v]
    ELSE a

RECURSIVE ApplyAllDesc(_, _)
ApplyAllDesc(d, ws) ==
    IF ws = << >> THEN d ELSE ApplyAllDesc(ApplyDesc(d, Head(ws)), Tail(ws))

RECURSIVE ApplyAllAvail(_, _)
ApplyAllAvail(a, ws) ==
    IF ws = << >> THEN a ELSE ApplyAllAvail(ApplyAvail(a, Head(ws)), Tail(ws))

\* What the driver reads: the memory with its own pending stores applied.
desc_view == ApplyAllDesc(desc, sb)
avail_view == ApplyAllAvail(avail, sb)

\* The driver issues stores ws: buffered when weak, else visible at once.
commit(ws) ==
    IF weak
    THEN sb' = sb \o ws /\ UNCHANGED <<desc, avail>>
    ELSE /\ desc' = ApplyAllDesc(desc, ws)
         /\ avail' = ApplyAllAvail(avail, ws)
         /\ UNCHANGED sb

\* fence(Ordering::SeqCst): every earlier store of the driver is visible.
\* (mutant: the fence waits for nothing)
fence_relaxed == TRUE
fence == sb = << >>

(* ------------------------------ recording ------------------------------ *)
NoAux == [ins |-> << >>, outs |-> << >>, data |-> << >>, got |-> << >>]
Call(fn, args, res, ret, aux) ==
    [fn |-> fn, args |-> args, res |-> res, ret |-> ret, aux |-> aux]

(* -------------------------------- Init --------------------------------- *)
InitWith(w, b, mx) ==
    /\ created = FALSE
    /\ queue_idx = 0 /\ queue_size = 0 /\ num_used = 0 /\ free_head = 0
    /\ avail_idx = 0 /\ last_used_idx = 0
    /\ desc = << >>
    /\ avail = [flags |-> 0, idx |-> 0, ring |-> << >>]
    /\ used = [flags |-> 0, idx |-> 0, ring |-> << >>]
    /\ sb = << >>
    /\ weak = w
    /\ pc = "idle"
    /\ loc = [head |-> 0, last |-> 0, rest |-> << >>, at |-> 0,
              ins |-> << >>, outs |-> << >>]
    /\ transport = [max |-> mx, queues |-> {}, notified |-> 0]
    /\ shared = {}
    /\ budget = b
    /\ devmem = [p \in PAddrs |-> << >>]
    /\ chains = << >>
    /\ dev \in {[kind |-> k, next |-> 0, work |-> {}] : k \in {"fake", "any"}}
    /\ done = << >>
    /\ op = Call("none", << >>, "Ok", 0, NoAux)
    /\ panicked = FALSE

Init == InitWith(FALSE, MaxDescs, MaxQueueSize)

(* ------------------------------ transport ------------------------------ *)
\* Transport::queue_used
queue_used(idx) == idx \in transport.queues
\* Transport::max_queue_size
max_queue_size == transport.max

(* --------------------------- VirtQueue::new ---------------------------- *)
\* The descriptor table as allocated: the last descriptor's next, which new
\* never writes, is whatever the allocation held (junk).
Allocated(size, junk) ==
    [i \in 0 .. size - 1 |->
        [addr |-> 0, len |-> 0, flags |-> 0,
         next |-> IF i < size - 1 THEN 0 ELSE junk]]

\* for i in 0..(size - 1) { (*desc)[i].next = i + 1 }
new_links(size) == [j \in 1 .. size - 1 |-> Store("next", j - 1, j)]

\* The descriptor table new leaves: next = i + 1 for i < size - 1.
LinkedDescriptors(size, junk) ==
    [i \in 0 .. size - 1 |->
        [Allocated(size, junk)[i] EXCEPT
            !.next = IF i < size - 1 THEN i + 1 ELSE @]]

\* (mutant: the size is checked before the index)
new_result_size_first(idx, size, dma_ok) ==
    IF ~is_power_of_two(size) \/ max_queue_size < size THEN "InvalidParam"
    ELSE IF queue_used(idx) THEN "AlreadyUsed"
    ELSE IF ~dma_ok THEN "DmaError"
    ELSE "Ok"

\* The outcome of new: the checks in the order the code makes them.
new_result(idx, size, dma_ok) ==
    IF queue_used(idx) THEN "AlreadyUsed"
    ELSE IF ~is_power_of_two(size) \/ max_queue_size < size THEN "InvalidParam"
    ELSE IF ~dma_ok THEN "DmaError"
    ELSE "Ok"

new(idx, size, junk, dma_ok) ==
    /\ ~panicked /\ pc = "idle"
    /\ avail_idx = 0
    /\ LET res == new_result(idx, size, dma_ok) IN
       /\ op' = Call("new", <<idx, size>>, res, 0, NoAux)
       /\ IF res = "Ok"
          THEN transport' = [transport EXCEPT !.queues = @ \cup {idx}]
          ELSE UNCHANGED transport
       /\ IF res = "Ok" /\ ~created
          THEN /\ created' = TRUE
               /\ queue_idx' = idx /\ queue_size' = size
               /\ num_used' = 0 /\ free_head' = 0
               /\ avail_idx' = 0 /\ last_used_idx' = 0
               /\ desc' = IF weak THEN Allocated(size, junk)
                          ELSE LinkedDescriptors(size, junk)
               /\ sb' = IF weak THEN new_links(size) ELSE sb
               /\ avail' = [flags |-> 0, idx |-> 0,
                            ring |-> [i \in 0 .. size - 1 |-> 0]]
               /\ used' = [flags |-> 0, idx |-> 0,
                           ring |-> [i \in 0 .. size - 1 |-> [id |-> 0, len |-> 0]]]
          ELSE UNCHANGED <<created, queue_idx, queue_size, num_used, free_head,
                           avail_idx, last_used_idx, desc, avail, used, sb>>
    /\ UNCHANGED <<weak, pc, loc, shared, budget, devmem, chains, dev, done,
                   panicked>>

(* ----------------------------- Descriptor ------------------------------ *)
\* Descriptor::set_buf on descriptor i: shares the buffer and stores addr,
\* len and flags.  (mutant: WRITE is set for the wrong direction)
set_buf_write_swapped(i, buf, direction, extra_flags) ==
    << Store("addr", i, share(buf)),
       Store("len", i, BufLen(buf)),
       Store("flags", i, IF direction = DriverToDevice
                         THEN insert(extra_flags, WRITE)
                         ELSE extra_flags) >>

set_buf(i, buf, direction, extra_flags) ==
    << Store("addr", i, share(buf)),
       Store("len", i, BufLen(buf)),
       Store("flags", i, IF direction = DeviceToDriver
                         THEN insert(extra_flags, WRITE)
                         ELSE extra_flags) >>

\* Descriptor::unset_buf on descriptor i.
unset_buf(i) == << Store("addr", i, 0), Store("len", i, 0) >>

\* Descriptor::next: Some(next) if NEXT is set, else None.
desc_next(d) == IF contains(d.flags, NEXT) THEN Some(d.next) ELSE None

\* VirtQueue::available_desc
available_desc == queue_size - num_used

(* ------------------------------ the caller ----------------------------- *)
\* Buffers the caller has lent to the queue and not got back.
LentBufs ==
    {b \in Buffers : \E t \in DOMAIN chains :
        \E i \in 1 .. Len(chains[t].all) : chains[t].all[i] = b}

RECURSIVE LowestK(_, _)
\* The k smallest elements of S, ascending.
LowestK(S, k) ==
    IF k = 0 \/ S = {} THEN << >>
    ELSE LET x == CHOOSE y \in S : \A z \in S : y <= z
         IN << x >> \o LowestK(S \ {x}, k - 1)

\* The buffers of a call add(inputs, outputs) with m inputs and n outputs.
ArgBufs(m, n) == LowestK(Buffers \ LentBufs, m + n)

(* --------------------------- VirtQueue::add ---------------------------- *)
\* self.free_head = (*desc).next, after set_buf on the descriptor at i
\* (mutant: free_head is not advanced)
add_free_head_kept(d, i) == i
add_free_head(d, i) == d[i].next

RECURSIVE add_loop(_, _)
\* The loop of add over input_output_iter: st carries the driver's view of
\* the descriptors, the stores issued, last and free_head.
add_loop(st, items) ==
    IF items = << >> THEN st
    ELSE LET i == st.free_head
             ws == set_buf(i, Head(items).buf, Head(items).dir, NEXT)
             d == ApplyAllDesc(st.d, ws)
         IN add_loop([d |-> d, stores |-> st.stores \o ws, last |-> i,
                      free_head |-> add_free_head(d, i)],
                     Tail(items))

\* self.num_used += (inputs.len() + outputs.len()) as u16  (mutant: counts
\* the chain as one descriptor)
add_num_used_one(used_now, count) == used_now + 1
add_num_used(used_now, count) == used_now + count

\* self.avail_idx & (self.queue_size - 1), also used for last_used_idx
\* (mutant: every index is mapped to slot 0)
ring_slot_zero(idx) == 0
ring_slot(idx) == BitAnd(idx, queue_size - 1)

\* ring[slot as usize] on an array declared with RingLen elements: an index
\* at or past RingLen fails the bounds check, a fatal error.
ring_in_bounds(slot) == slot < RingLen

\* The checks of add, in order.  (mutant: a chain that would fill the queue
\* exactly is refused)
add_result_no_fill(m, n) ==
    IF m = 0 /\ n = 0 THEN "InvalidParam"
    ELSE IF m + n + num_used >= queue_size THEN "QueueFull"
    ELSE "Ok"

\* (mutant: an empty request is not rejected)
add_result_empty_accepted(m, n) ==
    IF m + n + num_used > queue_size THEN "QueueFull"
    ELSE "Ok"

\* The outcome of add: the checks in the order the code makes them.
add_result(m, n) ==
    IF m = 0 /\ n = 0 THEN "InvalidParam"
    ELSE IF m + n + num_used > queue_size THEN "QueueFull"
    ELSE "Ok"

\* The Hal after the buffers of items were shared.
share_all(items) ==
    shared \cup {<<share(items[i].buf), items[i].buf, items[i].dir>> :
                    i \in 1 .. Len(items)}

add(m, n) ==
    /\ ~panicked /\ created /\ pc = "idle"
    /\ LET res == add_result(m, n)
           bufs == ArgBufs(m, n)
           inputs == SubSeq(bufs, 1, m)
           outputs == SubSeq(bufs, m + 1, m + n)
           items == input_output_iter(inputs, outputs)
       IN
       IF res # "Ok"
       THEN /\ op' = Call("add", <<m + n>>, res, 0, NoAux)
            /\ UNCHANGED <<num_used, free_head, avail_idx, desc, avail, sb,
                           shared, budget, devmem, chains, panicked>>
       ELSE LET head == free_head
                st == add_loop([d |-> desc_view, stores |-> << >>,
                                last |-> free_head, free_head |-> free_head],
                               items)
                clear == Store("flags", st.last, remove(st.d[st.last].flags, NEXT))
                avail_slot == ring_slot(avail_idx)
                ring == Store("ring", avail_slot, head)
                idx == Store("idx", 0, wrapping_add1(avail_idx))
            IN
            /\ m + n <= budget
            /\ budget' = budget - (m + n)
            /\ free_head' = st.free_head
            /\ num_used' = add_num_used(num_used, m + n)
            /\ shared' = share_all(items)
            /\ devmem' = [p \in PAddrs |->
                            IF \E i \in 1 .. Len(bufs) : share(bufs[i]) = p
                            THEN Zeros(BufLen(buf_of(p)))
                            ELSE devmem[p]]
            /\ IF ~ring_in_bounds(avail_slot)
               THEN \* the write of the ring slot fails its bounds check
                    /\ panicked' = TRUE
                    /\ commit(st.stores \o << clear >>)
                    /\ op' = Call("add", <<m + n>>, "Panic", 0, NoAux)
                    /\ UNCHANGED <<avail_idx, chains>>
               ELSE /\ UNCHANGED panicked
                    /\ avail_idx' = wrapping_add1(avail_idx)
                    \* both fences passed: every store so far is in memory
                    /\ desc' = ApplyAllDesc(desc, sb \o st.stores \o << clear >>)
                    /\ avail' = ApplyAllAvail(avail, sb \o << ring, idx >>)
                    /\ sb' = << >>
                    /\ chains' = [t \in DOMAIN chains \cup {head} |->
                                    IF t = head
                                    THEN [ins |-> inputs, outs |-> outputs,
                                          all |-> bufs, at |-> avail_idx]
                                    ELSE chains[t]]
                    /\ op' = Call("add", <<m + n>>, "Ok", head,
                                  [NoAux EXCEPT !.ins = inputs, !.outs = outputs])
    /\ UNCHANGED <<created, queue_idx, queue_size, last_used_idx, used, weak,
                   pc, loc, transport, dev, done>>

(* ------------------- add, one step at a time --------------------------- *)
\* The checks of add and the start of its loop.
add_enter(m, n) ==
    /\ ~panicked /\ created /\ pc = "idle"
    /\ LET res == add_result(m, n)
           bufs == ArgBufs(m, n)
           inputs == SubSeq(bufs, 1, m)
           outputs == SubSeq(bufs, m + 1, m + n)
       IN
       IF res # "Ok"
       THEN /\ op' = Call("add", <<m + n>>, res, 0, NoAux)
            /\ UNCHANGED <<pc, loc, budget>>
       ELSE /\ m + n <= budget
            /\ budget' = budget - (m + n)
            /\ pc' = "loop"
            /\ loc' = [head |-> free_head, last |-> free_head,
                       rest |-> input_output_iter(inputs, outputs),
                       at |-> avail_idx, ins |-> inputs, outs |-> outputs]
            /\ UNCHANGED op
    /\ UNCHANGED <<created, queue_idx, queue_size, num_used, free_head,
                   avail_idx, last_used_idx, desc, avail, used, sb, weak,
                   transport, shared, devmem, chains, dev, done, panicked>>

\* One iteration of the loop: set_buf on the descriptor at free_head.
add_set_buf ==
    /\ ~panicked /\ pc = "loop"
    /\ LET it == Head(loc.rest)
           i == free_head
       IN
       /\ commit(set_buf(i, it.buf, it.dir, NEXT))
       /\ shared' = shared \cup {<<share(it.buf), it.buf, it.dir>>}
       /\ devmem' = [devmem EXCEPT ![share(it.buf)] = Zeros(BufLen(it.buf))]
       /\ free_head' = add_free_head(desc_view, i)
       /\ loc' = [loc EXCEPT !.last = i, !.rest = Tail(@)]
       /\ pc' = IF Tail(loc.rest) = << >> THEN "publish" ELSE "loop"
    /\ UNCHANGED <<created, queue_idx, queue_size, num_used, avail_idx,
                   last_used_idx, used, weak, transport, budget, chains, dev,
                   done, op, panicked>>

\* After the loop: NEXT is removed from the last descriptor, num_used grows
\* and the head is written to the available ring.
add_publish ==
    /\ ~panicked /\ pc = "publish"
    /\ num_used' = add_num_used(num_used, Len(loc.ins) + Len(loc.outs))
    /\ IF ~ring_in_bounds(ring_slot(avail_idx))
       THEN /\ panicked' = TRUE
            /\ commit(<< Store("flags", loc.last,
                               remove(desc_view[loc.last].flags, NEXT)) >>)
            /\ op' = Call("add", <<Len(loc.ins) + Len(loc.outs)>>, "Panic",
                          0, NoAux)
            /\ UNCHANGED pc
       ELSE /\ commit(<< Store("flags", loc.last,
                               remove(desc_view[loc.last].flags, NEXT)),
                         Store("ring", ring_slot(avail_idx), loc.head) >>)
            /\ pc' = "index"
            /\ UNCHANGED <<op, panicked>>
    /\ UNCHANGED <<created, queue_idx, queue_size, free_head, avail_idx,
                   last_used_idx, used, weak, loc, transport, shared, budget,
                   devmem, chains, dev, done>>

\* The first fence, then avail_idx is advanced and stored to avail.idx.
add_index ==
    /\ ~panicked /\ pc = "index"
    /\ fence
    /\ avail_idx' = wrapping_add1(avail_idx)
    /\ commit(<< Store("idx", 0, wrapping_add1(avail_idx)) >>)
    /\ pc' = "return"
    /\ UNCHANGED <<created, queue_idx, queue_size, num_used, free_head,
                   last_used_idx, used, weak, loc, transport, shared, budget,
                   devmem, chains, dev, done, op, panicked>>

\* The second fence, then Ok(head).
add_return ==
    /\ ~panicked /\ pc = "return"
    /\ fence
    /\ pc' = "idle"
    /\ chains' = [t \in DOMAIN chains \cup {loc.head} |->
                    IF t = loc.head
                    THEN [ins |-> loc.ins, outs |-> loc.outs,
                          all |-> loc.ins \o loc.outs, at |-> loc.at]
                    ELSE chains[t]]
    /\ op' = Call("add", <<Len(loc.ins) + Len(loc.outs)>>, "Ok", loc.head,
                  [NoAux EXCEPT !.ins = loc.ins, !.outs = loc.outs])
    /\ UNCHANGED <<created, queue_idx, queue_size, num_used, free_head,
                   avail_idx, last_used_idx, desc, avail, used, sb, weak, loc,
                   transport, shared, budget, devmem, dev, done, panicked>>

(* --------------------------- the memory system ------------------------- *)
\* One pending store of the driver reaches memory; stores to one location
\* arrive in the order issued, stores to different locations in any order.
Flush ==
    /\ sb # << >>
    /\ \E j \in 1 .. Len(sb) :
          /\ \A k \in 1 .. j - 1 : sb[k].k # sb[j].k \/ sb[k].i # sb[j].i
          /\ desc' = ApplyDesc(desc, sb[j])
          /\ avail' = ApplyAvail(avail, sb[j])
          /\ sb' = SubSeq(sb, 1, j - 1) \o SubSeq(sb, j + 1, Len(sb))
    /\ UNCHANGED <<created, queue_idx, queue_size, num_used, free_head,
                   avail_idx, last_used_idx, used, weak, pc, loc, transport,
                   shared, budget, devmem, chains, dev, done, op, panicked>>

(* ------------------------------- devices ------------------------------- *)
\* The bytes at physical address p after a device wrote bytes there.
WriteBytes(mem, p, bytes) ==
    IF p \in DOMAIN mem
    THEN [mem EXCEPT ![p] = bytes \o SubSeq(@, Len(bytes) + 1, Len(@))]
    ELSE mem

RECURSIVE fake_loop(_, _, _, _)
\* The loop of fake_write_to_queue from descriptor i with the data left.
fake_loop(d, i, remaining_data, mem) ==
    IF i \notin DOMAIN d \/ ~contains(d[i].flags, WRITE)
    THEN [mem |-> mem, panic |-> TRUE]
    ELSE LET length_to_write == Min(Len(remaining_data), d[i].len)
             m2 == WriteBytes(mem, d[i].addr, SubSeq(remaining_data, 1, length_to_write))
             rest == SubSeq(remaining_data, length_to_write + 1, Len(remaining_data))
             nxt == desc_next(d[i])
         IN IF nxt # None
            THEN fake_loop(d, nxt[1], rest, m2)
            ELSE [mem |-> m2, panic |-> rest # << >>]

\* fake_write_to_queue(queue_size, descriptors, driver area, device area, data)
fake_write_to_queue(n) ==
    /\ ~panicked /\ created /\ dev.kind = "fake"
    /\ IF avail.idx = used.idx \/ ~ring_in_bounds(ring_slot(used.idx))
       THEN /\ panicked' = TRUE
            /\ UNCHANGED <<used, devmem, done>>
       ELSE LET next_slot == ring_slot(used.idx)
                head_descriptor_index == avail.ring[next_slot]
                r == fake_loop(desc, head_descriptor_index, Data(n), devmem)
            IN
            /\ devmem' = r.mem
            /\ IF r.panic
               THEN panicked' = TRUE /\ UNCHANGED <<used, done>>
               ELSE \* (*used_ring).idx += 1 on a u16: at the maximum the
                    \* addition panics (overflow checks on) or wraps (off)
                    \E overflow \in IF used.idx + 1 = U16
                                    THEN {"panic", "wrap"} ELSE {"none"} :
                       /\ panicked' = (overflow = "panic")
                       /\ used' = [used EXCEPT
                                     !.ring[next_slot] = [id |-> head_descriptor_index,
                                                          len |-> n],
                                     !.idx = IF overflow = "panic" THEN @
                                             ELSE (@ + 1) % U16]
                       /\ done' = IF overflow = "panic" THEN done
                                  ELSE Append(done, [id |-> head_descriptor_index,
                                                     len |-> n, data |-> Data(n)])
    /\ UNCHANGED <<created, queue_idx, queue_size, num_used, free_head,
                   avail_idx, last_used_idx, desc, avail, sb, weak, pc, loc,
                   transport, shared, budget, chains, dev, op>>

\* A device takes the next chain head from the available ring.
device_fetch ==
    /\ ~panicked /\ created /\ dev.kind = "any"
    /\ dev.next # avail.idx
    /\ dev' = [dev EXCEPT !.next = wrapping_add1(@),
                          !.work = @ \cup {avail.ring[ring_slot(dev.next)]}]
    /\ UNCHANGED <<created, queue_idx, queue_size, num_used, free_head,
                   avail_idx, last_used_idx, desc, avail, used, sb, weak, pc,
                   loc, transport, shared, budget, devmem, chains, done, op,
                   panicked>>

RECURSIVE device_loop(_, _, _, _, _)
\* A device walks the chain from descriptor i and writes the data into its
\* device-writable descriptors in order; fuel bounds the walk.
device_loop(d, i, remaining_data, mem, fuel) ==
    IF fuel = 0 \/ i \notin DOMAIN d
    THEN [mem |-> mem, rest |-> remaining_data]
    ELSE LET w == IF contains(d[i].flags, WRITE)
                  THEN Min(Len(remaining_data), d[i].len) ELSE 0
             m2 == WriteBytes(mem, d[i].addr, SubSeq(remaining_data, 1, w))
             rest == SubSeq(remaining_data, w + 1, Len(remaining_data))
             nxt == desc_next(d[i])
         IN IF nxt # None
            THEN device_loop(d, nxt[1], rest, m2, fuel - 1)
            ELSE [mem |-> m2, rest |-> rest]

\* A device completes chain h, one of those it took, writing n bytes.
device_complete(h, n) ==
    /\ ~panicked /\ created /\ dev.kind = "any"
    /\ h \in dev.work
    /\ LET r == device_loop(desc, h, Data(n), devmem, queue_size)
           slot == ring_slot(used.idx)
       IN
       /\ r.rest = << >>
       /\ devmem' = r.mem
       /\ used' = [used EXCEPT !.ring[slot] = [id |-> h, len |-> n],
                               !.idx = wrapping_add1(@)]
       /\ done' = Append(done, [id |-> h, len |-> n, data |-> Data(n)])
    /\ dev' = [dev EXCEPT !.work = @ \ {h}]
    /\ UNCHANGED <<created, queue_idx, queue_size, num_used, free_head,
                   avail_idx, last_used_idx, desc, avail, sb, weak, pc, loc,
                   transport, shared, budget, chains, op, panicked>>

(* ----------------------- can_pop and peek_used ------------------------- *)
\* VirtQueue::can_pop, after its fence.
can_pop_value == last_used_idx # used.idx

\* VirtQueue::peek_used, after the fence of can_pop.
\* (mutant: the slot after last_used_slot is read)
peek_used_value_next_slot ==
    IF can_pop_value
    THEN LET last_used_slot == ring_slot(last_used_idx + 1)
         IN Some(used.ring[last_used_slot].id % U16)
    ELSE None

peek_used_value ==
    IF can_pop_value
    THEN LET last_used_slot == ring_slot(last_used_idx)
         IN Some(used.ring[last_used_slot].id % U16)
    ELSE None

\* can_pop takes &self: last_used_idx is as before.  (mutant: a poll that
\* finds an element also consumes it)
can_pop_last_used_advanced(idx) ==
    IF can_pop_value THEN wrapping_add1(idx) ELSE idx
can_pop_last_used(idx) == idx

\* The call is recorded with the used.idx it read.
can_pop ==
    /\ ~panicked /\ created /\ pc = "idle"
    /\ fence
    /\ op' = Call("can_pop", << used.idx >>, "Ok",
                  IF can_pop_value THEN 1 ELSE 0, NoAux)
    /\ last_used_idx' = can_pop_last_used(last_used_idx)
    /\ UNCHANGED <<created, queue_idx, queue_size, num_used, free_head,
                   avail_idx, desc, avail, used, sb, weak, pc,
                   loc, transport, shared, budget, devmem, chains, dev, done,
                   panicked>>

peek_used ==
    /\ ~panicked /\ created /\ pc = "idle"
    /\ fence
    /\ IF can_pop_value /\ ~ring_in_bounds(ring_slot(last_used_idx))
       THEN /\ panicked' = TRUE
            /\ op' = Call("peek_used", << >>, "Panic", 0, NoAux)
       ELSE /\ op' = Call("peek_used", << >>,
                          IF peek_used_value = None THEN "None" ELSE "Some",
                          IF peek_used_value = None THEN 0
                          ELSE peek_used_value[1], NoAux)
            /\ UNCHANGED panicked
    /\ UNCHANGED <<created, queue_idx, queue_size, num_used, free_head,
                   avail_idx, last_used_idx, desc, avail, used, sb, weak, pc,
                   loc, transport, shared, budget, devmem, chains, dev, done>>

(* ------------------ recycle_descriptors and pop_used ------------------- *)
\* Hal::unshare(paddr, buffer, direction): the triple is no longer shared,
\* and what the device wrote at paddr is copied back to a device-to-driver
\* buffer (got collects what each such buffer then holds).
unshare(h, paddr, buf, direction) ==
    [shared |-> h.shared \ {<<paddr, buf, direction>>},
     got |-> IF direction = DeviceToDriver
             THEN Append(h.got, IF paddr \in DOMAIN h.devmem
                                THEN h.devmem[paddr] ELSE Zeros(BufLen(buf)))
             ELSE h.got,
     devmem |-> IF paddr \in DOMAIN h.devmem
                THEN [h.devmem EXCEPT ![paddr] = << >>]
                ELSE h.devmem]

\* if next.is_none() { (*desc).next = original_free_head; }  (mutant: the
\* tail of the recycled chain is not linked to the old free list)
recycle_tail_unlinked(i, nxt, original_free_head) == << >>
\* (mutant: the tail is linked to descriptor 0, not to the old free list)
recycle_tail_to_zero(i, nxt, original_free_head) ==
    IF nxt = None THEN << Store("next", i, 0) >> ELSE << >>
recycle_tail(i, nxt, original_free_head) ==
    IF nxt = None THEN << Store("next", i, original_free_head) >> ELSE << >>

\* self.num_used -= 1  (mutant: not counted down)
recycle_num_used_kept(used_now) == used_now
recycle_num_used(used_now) == used_now - 1

\* let paddr = (*desc).addr, read before unset_buf clears it  (mutant: read
\* after unset_buf)
recycle_paddr_after_unset(d, i) == 0
recycle_paddr(d, i) == d[i].addr

RECURSIVE recycle_loop(_, _, _)
\* The loop of recycle_descriptors: st carries the driver's view of the
\* descriptors, the stores issued, num_used, next, the Hal and whether the
\* expect on next failed.
recycle_loop(st, items, original_free_head) ==
    IF items = << >> THEN st
    ELSE IF st.next = None
    THEN [st EXCEPT !.panic = "Descriptor chain was shorter than expected."]
    ELSE LET i == st.next[1]
             paddr == recycle_paddr(st.d, i)
             nxt == desc_next(st.d[i])
             ws == unset_buf(i) \o recycle_tail(i, nxt, original_free_head)
         IN recycle_loop(
                [d |-> ApplyAllDesc(st.d, ws),
                 stores |-> st.stores \o ws,
                 num_used |-> recycle_num_used(st.num_used),
                 next |-> nxt,
                 hal |-> unshare(st.hal, paddr, Head(items).buf, Head(items).dir),
                 panic |-> ""],
                Tail(items), original_free_head)

\* VirtQueue::recycle_descriptors(head, inputs, outputs): the state it leaves
\* (free_head is head), with panic set if it ended in a fatal error.
\* (mutant: a chain longer than the buffer list is accepted)
recycle_descriptors_longer_accepted(head, inputs, outputs) ==
    recycle_loop(
        [d |-> desc_view, stores |-> << >>, num_used |-> num_used,
         next |-> Some(head),
         hal |-> [shared |-> shared, got |-> << >>, devmem |-> devmem],
         panic |-> ""],
        input_output_iter(inputs, outputs), free_head)

recycle_descriptors(head, inputs, outputs) ==
    LET st == recycle_loop(
                  [d |-> desc_view, stores |-> << >>, num_used |-> num_used,
                   next |-> Some(head),
                   hal |-> [shared |-> shared, got |-> << >>,
                            devmem |-> devmem],
                   panic |-> ""],
                  input_output_iter(inputs, outputs), free_head)
    IN IF st.panic = "" /\ st.next # None
       THEN [st EXCEPT !.panic = "Descriptor chain was longer than expected."]
       ELSE st

\* index and len of the used element at last_used_slot  (mutant of used_len:
\* the id is returned as the length)
used_index(slot) == used.ring[slot].id % U16
used_len_id(slot) == used.ring[slot].id
used_len(slot) == used.ring[slot].len

\* The checks of pop_used, in order.  (mutants: the token is compared before
\* the ring is known to hold a new element; the token is not compared)
pop_used_result_token_first(token) ==
    IF used_index(ring_slot(last_used_idx)) # token THEN "WrongToken"
    ELSE IF ~can_pop_value THEN "NotReady"
    ELSE "Ok"
pop_used_result_any_token(token) ==
    IF ~can_pop_value THEN "NotReady" ELSE "Ok"
pop_used_result(token) ==
    IF ~can_pop_value THEN "NotReady"
    ELSE IF used_index(ring_slot(last_used_idx)) # token THEN "WrongToken"
    ELSE "Ok"

\* pop_used(token, inputs, outputs), the caller presenting the buffers it
\* recorded for chain c (Some(t)) or no buffers at all (None).
pop_used(token, c) ==
    /\ ~panicked /\ created /\ pc = "idle"
    /\ fence
    /\ LET inputs == IF c = None THEN << >> ELSE chains[c[1]].ins
           outputs == IF c = None THEN << >> ELSE chains[c[1]].outs
           res == pop_used_result(token)
           last_used_slot == ring_slot(last_used_idx)
           index == used_index(last_used_slot)
           len == used_len(last_used_slot)
           written == IF done = << >> THEN << >> ELSE Head(done).data
           st == recycle_descriptors(index, inputs, outputs)
           aux == [NoAux EXCEPT !.ins = inputs, !.outs = outputs]
       IN
       IF can_pop_value /\ ~ring_in_bounds(last_used_slot)
       THEN \* the read of the used element fails its bounds check
            /\ panicked' = TRUE
            /\ op' = Call("pop_used", <<token>> \o c, "Panic", 0, aux)
            /\ UNCHANGED <<num_used, free_head, last_used_idx, desc, avail, sb,
                           shared, devmem, chains, done>>
       ELSE IF res # "Ok"
       THEN /\ op' = Call("pop_used", <<token>>, res, 0, NoAux)
            /\ UNCHANGED <<num_used, free_head, last_used_idx, desc, avail, sb,
                           shared, devmem, chains, done, panicked>>
       ELSE /\ free_head' = index
            /\ num_used' = st.num_used
            /\ commit(st.stores)
            /\ shared' = st.hal.shared
            /\ devmem' = st.hal.devmem
            /\ IF st.panic # ""
               THEN /\ panicked' = TRUE
                    /\ op' = Call("pop_used", <<token>> \o c, "Panic", 0, aux)
                    /\ UNCHANGED <<last_used_idx, chains, done>>
               ELSE /\ last_used_idx' = wrapping_add1(last_used_idx)
                    /\ chains' = [t \in DOMAIN chains \ {token} |-> chains[t]]
                    /\ done' = IF done = << >> THEN done ELSE Tail(done)
                    /\ op' = Call("pop_used", <<token>> \o c, "Ok", len,
                                  [aux EXCEPT !.data = written,
                                              !.got = st.hal.got])
                    /\ UNCHANGED panicked
    /\ UNCHANGED <<created, queue_idx, queue_size, avail_idx, used, weak, pc,
                   loc, transport, budget, dev>>

(* ------------------- VirtQueue::add_notify_wait_pop -------------------- *)
\* The function keeps nothing but the token between the calls it makes, so
\* where it stands is told by the call it made last and what that returned.

\* Transport::notify(queue)
notify(queue) == transport' = [transport EXCEPT !.notified = @ + 1]

\* let token = self.add(inputs, outputs)?  An error of add is returned.
add_notify_wait_pop_enter(m, n) ==
    /\ op.fn \notin {"notify", "can_pop"}
    /\ ~(op.fn = "add" /\ op.res = "Ok")
    /\ add_enter(m, n)

\* transport.notify(self.queue_idx), once add returned Ok(token).
add_notify_wait_pop_notify ==
    /\ ~panicked /\ created /\ pc = "idle"
    /\ op.fn = "add" /\ op.res = "Ok"
    /\ notify(queue_idx)
    /\ op' = Call("notify", <<queue_idx>>, "Ok", 0, NoAux)
    /\ UNCHANGED <<created, queue_idx, queue_size, num_used, free_head,
                   avail_idx, last_used_idx, desc, avail, used, sb, weak, pc,
                   loc, shared, budget, devmem, chains, dev, done, panicked>>

\* (mutant: the loop is left after the first poll, whatever it returned)
spin_done_at_once == op.fn = "can_pop"

\* while !self.can_pop() { spin_loop() } is left when can_pop returned true.
spin_done == op.fn = "can_pop" /\ op.ret = 1

\* One poll of the loop.
add_notify_wait_pop_spin ==
    /\ op.fn = "notify" \/ (op.fn = "can_pop" /\ ~spin_done)
    /\ can_pop

\* self.pop_used(token, inputs, outputs), whose result is returned.
add_notify_wait_pop_pop ==
    /\ spin_done
    /\ pop_used(loc.head, Some(loc.head))

(* ----------------------------- behaviours ------------------------------ *)
\* Tokens the caller passes to pop_used: those of its chains in flight, and 0.
Tokens == DOMAIN chains \cup {0}
\* Buffers the caller presents to pop_used(token, ..): those it recorded for
\* the token, those of another chain of a different length, or none.
Presented(token) ==
    {None} \cup
    {Some(t) : t \in {x \in DOMAIN chains :
        \/ x = token
        \/ token \in DOMAIN chains
           /\ Len(chains[x].all) # Len(chains[token].all)}}

Sizes == 0 .. MaxQueueSize + 2
Junk == {0, U16 - 1}

Next ==
    \/ \E size \in Sizes, junk \in Junk, dma_ok \in BOOLEAN :
          new(QueueIdx, size, junk, dma_ok)
    \/ \E m, n \in 0 .. MaxQueueSize + 1 :
          m + n <= queue_size + 1 /\ add(m, n)
    \/ can_pop
    \/ peek_used
    \/ \E token \in Tokens : \E c \in Presented(token) : pop_used(token, c)
    \/ \E n \in 0 .. MaxData : fake_write_to_queue(n)
    \/ device_fetch
    \/ \E h \in 0 .. queue_size - 1, n \in 0 .. MaxData : device_complete(h, n)

Spec == Init /\ [][Next]_vars

\* The driver's stores reach memory one by one while a device runs, and add
\* proceeds write by write.  The caller adds what fits and pops its own
\* chains; the device writes nothing or MaxData bytes.
InitFine == InitWith(TRUE, MaxFineDescs, MaxQueueSize)

NextFine ==
    \/ \E size \in Sizes, junk \in Junk, dma_ok \in BOOLEAN :
          new(QueueIdx, size, junk, dma_ok)
    \/ \E m, n \in 0 .. MaxQueueSize :
          m + n >= 1 /\ m + n <= available_desc /\ add_enter(m, n)
    \/ add_set_buf
    \/ add_publish
    \/ add_index
    \/ add_return
    \/ Flush
    \/ \E token \in DOMAIN chains : pop_used(token, Some(token))
    \/ \E n \in {0, MaxData} : fake_write_to_queue(n)
    \/ device_fetch
    \/ \E h \in 0 .. queue_size - 1, n \in {0, MaxData} : device_complete(h, n)

SpecFine == InitFine /\ [][NextFine]_vars

\* The queue after WrapStart rounds of add([], [buffer 1]), a completion of
\* 0 bytes and pop_used: as new left it, but for WRITE left on descriptor 0
\* and the counters, which are MaxWrapDescs short of wrapping back to 1.
WrapStart == U16 + 1 - MaxWrapDescs

InitWrapWith(w) ==
    /\ created = TRUE
    /\ queue_idx = QueueIdx
    /\ queue_size \in {q \in 1 .. MaxQueueSize : is_power_of_two(q)}
    /\ num_used = 0 /\ free_head = 0
    /\ avail_idx = WrapStart /\ last_used_idx = WrapStart
    /\ \E junk \in Junk :
          desc = [LinkedDescriptors(queue_size, junk) EXCEPT ![0].flags = WRITE]
    /\ avail = [flags |-> 0, idx |-> WrapStart,
                ring |-> [i \in 0 .. queue_size - 1 |-> 0]]
    /\ used = [flags |-> 0, idx |-> WrapStart,
               ring |-> [i \in 0 .. queue_size - 1 |-> [id |-> 0, len |-> 0]]]
    /\ sb = << >>
    /\ weak = w
    /\ pc = "idle"
    /\ loc = [head |-> 0, last |-> 0, rest |-> << >>, at |-> 0,
              ins |-> << >>, outs |-> << >>]
    /\ transport = [max |-> MaxQueueSize, queues |-> {QueueIdx}, notified |-> 0]
    /\ shared = {}
    /\ budget = MaxWrapDescs
    /\ devmem = [p \in PAddrs |-> << >>]
    /\ chains = << >>
    /\ dev \in {[kind |-> "fake", next |-> 0, work |-> {}],
                [kind |-> "any", next |-> WrapStart, work |-> {}]}
    /\ done = << >>
    /\ op = Call("pop_used", << 0, 0 >>, "Ok", 0,
                 [NoAux EXCEPT !.outs = << 1 >>, !.got = << Zeros(BufLen(1)) >>])
    /\ panicked = FALSE

InitWrap == InitWrapWith(FALSE)

SpecWrap == InitWrap /\ [][Next]_vars

\* The same start, with the driver's stores reaching memory one by one and
\* add running write by write between the other calls; the device writes no
\* data.
InitFineWrap == InitWrapWith(TRUE)

NextFineWrap ==
    \/ \E m, n \in 0 .. MaxQueueSize :
          m + n <= queue_size + 1 /\ add_enter(m, n)
    \/ add_set_buf
    \/ add_publish
    \/ add_index
    \/ add_return
    \/ Flush
    \/ can_pop
    \/ peek_used
    \/ \E token \in Tokens :
          pop_used(token, IF token \in DOMAIN chains THEN Some(token) ELSE None)
    \/ avail.idx # used.idx /\ fake_write_to_queue(0)
    \/ device_fetch
    \/ \E h \in 0 .. queue_size - 1 : device_complete(h, 0)

SpecFineWrap == InitFineWrap /\ [][NextFineWrap]_vars

\* A caller that only uses add_notify_wait_pop, one call at a time, while the
\* driver's stores reach memory one by one.  The device takes what is in
\* the available ring.  The driver's code runs on, pending stores reach
\* memory and the device does not stop while it has work.
InitWait == InitWith(TRUE, MaxWaitDescs, MaxQueueSize)

WaitDriver ==
    \/ add_set_buf
    \/ add_publish
    \/ add_index
    \/ add_return
    \/ add_notify_wait_pop_notify
    \/ add_notify_wait_pop_spin
    \/ add_notify_wait_pop_pop

WaitDevice ==
    \/ \E n \in {0, MaxData} : avail.idx # used.idx /\ fake_write_to_queue(n)
    \/ device_fetch
    \/ \E h \in 0 .. queue_size - 1, n \in {0, MaxData} : device_complete(h, n)

NextWait ==
    \/ \E size \in Sizes, dma_ok \in BOOLEAN :
          new(QueueIdx, size, 0, dma_ok)
    \/ \E m, n \in 0 .. MaxQueueSize : add_notify_wait_pop_enter(m, n)
    \/ WaitDriver
    \/ Flush
    \/ WaitDevice

SpecWait ==
    /\ InitWait /\ [][NextWait]_vars
    /\ WF_vars(WaitDriver) /\ WF_vars(Flush) /\ WF_vars(WaitDevice)

\* A queue of the size the tests use, so that chains of different lengths
\* are in flight together.  The caller adds one or two buffers and pops with
\* the right buffers, with those of a chain of another length, or with none;
\* the device writes no data.
InitTest == InitWith(FALSE, MaxTestDescs, TestSize)

NextTest ==
    \/ new(QueueIdx, TestSize, 0, TRUE)
    \/ \E m, n \in 0 .. 2 : m + n \in 1 .. 2 /\ add(m, n)
    \/ \E token \in DOMAIN chains :
          \E c \in Presented(token) : pop_used(token, c)
    \/ avail.idx # used.idx /\ fake_write_to_queue(0)
    \/ device_fetch
    \/ \E h \in 0 .. queue_size - 1 : device_complete(h, 0)

SpecTest == InitTest /\ [][NextTest]_vars

\* A transport whose maximum is the first power of two past RingLen, and a
\* caller that keeps one chain of one output buffer in flight, for one
\* submission more than RingLen.
WideSize == 2 * RingLen

InitWide == InitWith(FALSE, RingLen + 1, WideSize)

NextWide ==
    \/ \E junk \in Junk : new(QueueIdx, WideSize, junk, TRUE)
    \/ num_used = 0 /\ add(0, 1)
    \/ can_pop
    \/ peek_used
    \/ \E token \in DOMAIN chains : pop_used(token, Some(token))
    \/ fake_write_to_queue(0)
    \/ device_fetch
    \/ \E h \in 0 .. queue_size - 1 : device_complete(h, 0)

SpecWide == InitWide /\ [][NextWide]_vars

(* =============================== claims ================================ *)
\* A call has returned: the queue is between calls and no panic occurred.
Quiescent == created /\ ~panicked /\ pc = "idle"

RECURSIVE FreeWalk(_, _)
\* The indices met following next from descriptor i for k steps (the walk
\* stops early at an index outside the table, which it still reports).
FreeWalk(i, k) ==
    IF k = 0 THEN << >>
    ELSE IF i \notin DOMAIN desc_view THEN << i >>
    ELSE << i >> \o FreeWalk(desc_view[i].next, k - 1)

Range(f) == {f[x] : x \in DOMAIN f}

RECURSIVE SumLens(_)
\* Descriptors of the chains in S (tokens the caller holds).
SumLens(S) ==
    IF S = {} THEN 0
    ELSE LET t == CHOOSE x \in S : TRUE
         IN Len(chains[t].all) + SumLens(S \ {t})

\* C1: between calls, following next from free_head for available_desc()
\* steps visits exactly available_desc() = queue_size - num_used pairwise
\* distinct descriptor indices, each in [0, queue_size).
C1_FreeListWalk ==
    Quiescent =>
        LET w == FreeWalk(free_head, available_desc) IN
        /\ available_desc = queue_size - num_used
        /\ Len(w) = available_desc
        /\ Cardinality(Range(w)) = available_desc
        /\ Range(w) \subseteq 0 .. queue_size - 1

\* C1 witness: chains were completed and popped out of submission order, so
\* the free list of a size-2 queue is whole again but reversed.
C1_Witness ==
    /\ Quiescent /\ op.fn = "pop_used" /\ op.res = "Ok"
    /\ queue_size = 2 /\ num_used = 0 /\ free_head = 1
    /\ desc[1].next = 0

\* C2: in every state between calls 0 <= num_used <= queue_size,
\* available_desc() = queue_size - num_used, and num_used is the number of
\* descriptors in the chains added and not yet popped.
C2_NumUsed ==
    Quiescent =>
        /\ num_used \in 0 .. queue_size
        /\ available_desc \in 0 .. queue_size
        /\ available_desc + SumLens(DOMAIN chains) = queue_size
        /\ num_used = SumLens(DOMAIN chains)

\* C2 witness: two chains in flight fill a size-2 queue.
C2_Witness ==
    /\ Quiescent /\ queue_size = 2 /\ num_used = 2
    /\ Cardinality(DOMAIN chains) = 2

(* --------------------------- calls as steps ---------------------------- *)
\* What a failed call must leave alone: the queue's fields, the three areas
\* of the queue's memory, the Hal's shared buffers and the caller's chains.
DriverState ==
    <<queue_size, num_used, free_head, avail_idx, last_used_idx, desc, avail,
      used, sb, shared, devmem, chains>>

\* The part of it no device writes.
QueueState ==
    <<queue_size, num_used, free_head, avail_idx, last_used_idx, desc, avail,
      sb, shared, chains>>

\* The step is a return of add, of pop_used, of peek_used.  (A device step
\* leaves op alone; a call that returns what the last call returned either
\* moved a counter or changed nothing at all.)
AddReturns == op'.fn = "add" /\ (op' # op \/ avail_idx' # avail_idx)
PopReturns ==
    /\ op'.fn = "pop_used"
    /\ (op' # op \/ last_used_idx' # last_used_idx)
PeekReturns == op'.fn = "peek_used" /\ op' # op

\* pop_used was given the buffers recorded for its token.
OwnBuffers(o) == Len(o.args) = 2 /\ o.args[2] = o.args[1]

RECURSIVE ChainFrom(_, _, _)
\* The descriptors of the chain at i in table d, following next while NEXT
\* is set (at most fuel of them).
ChainFrom(d, i, fuel) ==
    IF fuel = 0 \/ i \notin DOMAIN d THEN << >>
    ELSE << i >> \o (IF contains(d[i].flags, NEXT)
                     THEN ChainFrom(d, d[i].next, fuel - 1)
                     ELSE << >>)

RECURSIVE Flat(_)
Flat(seqs) == IF seqs = << >> THEN << >> ELSE Head(seqs) \o Flat(Tail(seqs))

\* C4: a successful add of m inputs and n outputs returns the free_head it
\* started from; the chain in memory from that token has exactly m + n
\* descriptors, the i-th with the length of the i-th buffer (inputs first),
\* NEXT on all but the last, WRITE exactly on the outputs; and the slot
\* (old avail_idx) & (queue_size - 1) of the available ring holds the token.
C4_ChainLayout ==
    [][AddReturns /\ op'.res = "Ok" =>
        LET m == Len(op'.aux.ins)
            n == Len(op'.aux.outs)
            bufs == op'.aux.ins \o op'.aux.outs
            token == op'.ret
            ch == ChainFrom(desc', token, queue_size + 1)
        IN
        /\ token = free_head
        /\ Len(ch) = m + n
        /\ \A i \in 1 .. Len(ch) :
              /\ i <= Len(bufs) => desc'[ch[i]].len = BufLen(bufs[i])
              /\ contains(desc'[ch[i]].flags, NEXT) <=> i < m + n
              /\ contains(desc'[ch[i]].flags, WRITE) <=> i > m
        /\ avail'.ring[BitAnd(avail_idx, queue_size - 1)] = token]_vars

\* C4 witness: add of one input and one output returned token 1, the head
\* of a free list that earlier pops had reversed.
C4_Witness ==
    /\ Quiescent /\ op.fn = "add" /\ op.res = "Ok" /\ op.ret = 1
    /\ Len(op.aux.ins) = 1 /\ Len(op.aux.outs) = 1

\* C5: add with at least one buffer fails with QueueFull exactly when
\* inputs.len() + outputs.len() + num_used > queue_size, and the failed call
\* changes none of num_used, free_head, avail_idx, the available ring, the
\* descriptors, and shares no buffer.
C5_QueueFull ==
    [][AddReturns /\ op'.args[1] >= 1 =>
        /\ op'.res = "QueueFull" <=> op'.args[1] + num_used > queue_size
        /\ op'.res = "QueueFull" => UNCHANGED DriverState]_vars

\* C5 witness: two buffers, which an empty size-2 queue would take, were
\* refused with one descriptor in use.
C5_Witness ==
    /\ Quiescent /\ op.fn = "add" /\ op.res = "QueueFull"
    /\ op.args[1] = 2 /\ queue_size = 2 /\ num_used = 1

\* C6: from any reachable state an add with k buffers, 1 <= k <=
\* available_desc(), succeeds, and available_desc() has then gone down by
\* exactly k.
C6_AddSucceeds ==
    [][AddReturns /\ op'.args[1] >= 1 /\ op'.args[1] <= available_desc =>
        /\ op'.res = "Ok"
        /\ available_desc' = available_desc - op'.args[1]]_vars

\* C6 witness: after the queue was exhausted and emptied out of order, a
\* chain of two buffers was accepted from the reversed free list.
C6_Witness ==
    /\ Quiescent /\ op.fn = "add" /\ op.res = "Ok" /\ op.args[1] = 2
    /\ op.ret = 1 /\ queue_size = 2 /\ num_used = 2

\* C7: pop_used with a token other than the id of the next used element
\* returns WrongToken, changes no state and unshares nothing; the pop_used
\* that follows with that id and its chain's buffers succeeds.
C7_WrongToken ==
    /\ [][PopReturns /\ can_pop_value
          /\ used.ring[BitAnd(last_used_idx, queue_size - 1)].id # op'.args[1] =>
            /\ op'.res = "WrongToken"
            /\ UNCHANGED DriverState]_vars
    /\ [][PopReturns /\ op.fn = "pop_used" /\ op.res = "WrongToken"
          /\ op'.args[1] = used.ring[BitAnd(last_used_idx, queue_size - 1)].id
          /\ (op'.res \in {"Ok", "Panic"} => OwnBuffers(op')) =>
            op'.res = "Ok"]_vars

\* C7 witness: chains 0 and 1 are in flight, the device completed chain 0
\* first, and pop_used with token 1 returned WrongToken.
C7_Witness ==
    /\ Quiescent /\ op.fn = "pop_used" /\ op.res = "WrongToken"
    /\ op.args[1] = 1 /\ DOMAIN chains = {0, 1}
    /\ can_pop_value /\ used.ring[BitAnd(last_used_idx, queue_size - 1)].id = 0

\* C8: pop_used returns NotReady whenever last_used_idx equals the used
\* ring's idx, whatever the token, and leaves all state unchanged.
C8_NotReady ==
    [][PopReturns /\ last_used_idx = used.idx =>
        /\ op'.res = "NotReady"
        /\ UNCHANGED DriverState]_vars

\* C8 witness: pop_used with the token of a chain the device has not yet
\* completed returned NotReady.
C8_Witness ==
    /\ Quiescent /\ op.fn = "pop_used" /\ op.res = "NotReady"
    /\ op.args[1] \in DOMAIN chains /\ last_used_idx = used.idx
    /\ last_used_idx > 0

\* C9: the pop_used matching a completed chain returns exactly the len the
\* device wrote in the chain's used element, its device-to-driver buffers
\* hold the bytes the device wrote, and available_desc() grows by the
\* chain's number of descriptors; with no chain left outstanding,
\* available_desc() is queue_size.
C9_RoundTrip ==
    /\ [][PopReturns /\ op'.res = "Ok" =>
            LET t == op'.args[1]
                flat == Flat(op'.aux.got)
            IN
            /\ OwnBuffers(op')
            /\ t \in DOMAIN chains
            /\ done # << >>
            /\ Head(done).id = t
            /\ op'.ret = Head(done).len
            /\ Len(op'.aux.got) = Len(chains[t].outs)
            /\ \A j \in 1 .. Len(op'.aux.got) :
                  Len(op'.aux.got[j]) = BufLen(chains[t].outs[j])
            /\ Len(flat) >= Len(Head(done).data)
            /\ flat = Head(done).data \o Zeros(Len(flat) - Len(Head(done).data))
            /\ available_desc' = available_desc + Len(chains[t].all)]_vars
    /\ [](Quiescent /\ DOMAIN chains = {} => available_desc = queue_size)

\* C9 witness: the device wrote two bytes across two output buffers and the
\* matching pop_used returned 2.
C9_Witness ==
    /\ Quiescent /\ op.fn = "pop_used" /\ op.res = "Ok" /\ op.ret = 2
    /\ Len(op.aux.got) = 2 /\ op.aux.got[1] # << >>
    /\ op.aux.data = << 1, 2 >>

\* C10: peek_used changes no queue state; it returns None exactly when
\* can_pop() is false, and otherwise the id at slot last_used_idx &
\* (queue_size - 1) of the used ring, so that the pop_used issued next with
\* that id and its chain's buffers fails with neither NotReady nor
\* WrongToken.
C10_PeekUsed ==
    /\ [][op'.fn = "peek_used" => UNCHANGED QueueState]_vars
    /\ [][PeekReturns =>
            /\ UNCHANGED DriverState
            /\ op'.res = "None" <=> ~can_pop_value
            /\ op'.res = "Some" =>
                  op'.ret = used.ring[BitAnd(last_used_idx, queue_size - 1)].id]_vars
    /\ [][PopReturns /\ op.fn = "peek_used" /\ op.res = "Some"
          /\ op'.args[1] = op.ret =>
            /\ op'.res \notin {"NotReady", "WrongToken"}
            /\ OwnBuffers(op') => op'.res = "Ok"]_vars

\* C10 witness: with chains 0 and 1 in flight the device completed chain 1
\* first and peek_used returned Some(1).
C10_Witness ==
    /\ Quiescent /\ op.fn = "peek_used" /\ op.res = "Some" /\ op.ret = 1
    /\ DOMAIN chains = {0, 1}

\* Chains the device may be given: those add returned and has not seen
\* popped, and the one of an add in progress.
Submitted ==
    {[head |-> h, at |-> chains[h].at, ins |-> chains[h].ins,
      outs |-> chains[h].outs] : h \in DOMAIN chains}
    \cup (IF pc = "idle" THEN {}
          ELSE {[head |-> loc.head, at |-> loc.at, ins |-> loc.ins,
                 outs |-> loc.outs]})

\* Available-ring entries the device has taken.
Consumed == IF dev.kind = "fake" THEN used.idx ELSE dev.next

\* Every descriptor of chain e is completely written in memory.
ChainWritten(e) ==
    LET bufs == e.ins \o e.outs
        ch == ChainFrom(desc, e.head, queue_size + 1)
    IN /\ Len(ch) = Len(bufs)
       /\ \A i \in 1 .. Len(ch) :
             i <= Len(bufs) =>
                /\ desc[ch[i]].addr = share(bufs[i])
                /\ desc[ch[i]].len = BufLen(bufs[i])
                /\ desc[ch[i]].flags =
                      (IF i < Len(bufs) THEN NEXT ELSE 0)
                      + (IF i > Len(e.ins) THEN WRITE ELSE 0)

\* C3: with add running write by write beside a device, whenever memory
\* shows avail.idx = n, every available-ring index below n that the device
\* has not consumed has its slot holding the head of the chain submitted at
\* that index, and every descriptor of that chain is completely written
\* (addr, len, flags, NEXT absent on the last).
C3_FenceOrdering ==
    created /\ ~panicked =>
        \A k \in 0 .. MaxDescs :
            Consumed <= k /\ k < avail.idx =>
                \E e \in Submitted :
                    /\ e.at = k
                    /\ avail.ring[BitAnd(k, queue_size - 1)] = e.head
                    /\ ChainWritten(e)

\* C3 witness: a chain was completed and popped; memory already shows the
\* new avail.idx for a chain of two descriptors, one of them recycled, that
\* the device has not taken, while add has not returned.
C3_Witness ==
    /\ created /\ ~panicked /\ weak /\ pc = "return"
    /\ avail.idx = 2 /\ Consumed = 1 /\ last_used_idx = 1
    /\ Len(loc.ins) = 1 /\ Len(loc.outs) = 1

\* The step is a return of can_pop.
CanPopReturns == op'.fn = "can_pop" /\ op' # op

\* C11 as stated: of two calls of can_pop with no call of pop_used (nor any
\* other call) between them, the second returns what the first returned and
\* last_used_idx is not advanced.
C11_SameValueAsStated ==
    [][op.fn = "can_pop" /\ op'.fn = "can_pop" =>
        /\ op'.ret = op.ret
        /\ last_used_idx' = last_used_idx]_vars

\* C11 amended: can_pop changes no state of the queue, so it never advances
\* last_used_idx, and a call of can_pop that follows another with no call
\* and no completion written by the device in between (used.idx is the one
\* the earlier call read) returns the same value; last_used_idx changes
\* only when pop_used returns Ok and the used ring only when the device
\* writes it, so calls of add or peek_used in between change nothing of this.
C11_CanPopIdempotent ==
    /\ [][op'.fn = "can_pop" => UNCHANGED QueueState]_vars
    /\ [][CanPopReturns => UNCHANGED DriverState]_vars
    /\ [][op.fn = "can_pop" /\ op'.fn = "can_pop" /\ op.args[1] = used.idx =>
            op'.ret = op.ret]_vars
    /\ [](Quiescent /\ op.fn = "can_pop" /\ op.args[1] = used.idx =>
            (op.ret = 1 <=> last_used_idx # used.idx))
    /\ [][last_used_idx' # last_used_idx =>
            op'.fn = "pop_used" /\ op'.res = "Ok"]_vars
    /\ [][used' # used /\ created => op' = op]_vars

\* C11 witness: can_pop returned true for a completed chain that is still
\* to be popped, and the device has written nothing since.
C11_Witness ==
    /\ Quiescent /\ op.fn = "can_pop" /\ op.ret = 1
    /\ op.args[1] = used.idx /\ used.idx = 1 /\ last_used_idx = 0
    /\ DOMAIN chains = {0, 1}

\* How far the 16-bit counter to is ahead of from.
Ahead(from, to) == (to + U16 - from) % U16

\* C12: across 2^16 the counters stay 16-bit; every submission the device
\* has not consumed sits in the available-ring slot idx & (Q - 1) the
\* device reads for it, every completion not yet popped in the used-ring
\* slot the driver reads for it, and can_pop() is true exactly when the
\* device has written a completion the driver has not popped.
C12_WrapClean ==
    Quiescent =>
        /\ avail_idx \in 0 .. U16 - 1
        /\ last_used_idx \in 0 .. U16 - 1
        /\ avail.idx = avail_idx
        /\ Ahead(Consumed, avail_idx) <= queue_size
        /\ \A j \in 0 .. Ahead(Consumed, avail_idx) - 1 :
              LET k == (Consumed + j) % U16
              IN \E h \in DOMAIN chains :
                    /\ chains[h].at = k
                    /\ avail.ring[BitAnd(k, queue_size - 1)] = h
        /\ Ahead(last_used_idx, used.idx) = Len(done)
        /\ \A j \in 1 .. Len(done) :
              LET k == (last_used_idx + j - 1) % U16
              IN used.ring[BitAnd(k, queue_size - 1)] =
                    [id |-> done[j].id, len |-> done[j].len]
        /\ can_pop_value <=> done # << >>

\* C12 witness: avail_idx and the device's used.idx have passed 2^16 - 1,
\* last_used_idx has not yet: two chains are in flight, the one submitted
\* at index 2^16 - 1 is completed and waits to be popped.
C12_Witness ==
    /\ Quiescent /\ queue_size = 2
    /\ avail_idx = 1 /\ used.idx = 0 /\ last_used_idx = U16 - 1
    /\ DOMAIN chains = {0, 1} /\ Len(done) = 1

\* C13: for every power-of-two size up to the transport's maximum new
\* succeeds, and add, the device, peek_used and pop_used then use the slots
\* idx & (Q - 1) with no fatal error: no call the caller makes with its own
\* buffers panics, and every submission the device has not consumed is in
\* the slot the device reads for it.
C13_AllSizesFunction ==
    /\ op.fn = "new" /\ is_power_of_two(op.args[2])
          /\ op.args[2] <= max_queue_size =>
            op.res \in {"Ok", "AlreadyUsed"}
    /\ ~(op.res = "Panic" /\ (op.fn # "pop_used" \/ OwnBuffers(op)))
    /\ Quiescent =>
          \A j \in 0 .. Ahead(Consumed, avail_idx) - 1 :
              LET k == (Consumed + j) % U16
              IN \E h \in DOMAIN chains :
                    /\ chains[h].at = k
                    /\ avail.ring[BitAnd(k, queue_size - 1)] = h

\* The step is a return of new.
NewReturns == op'.fn = "new" /\ op' # op

\* C14: new fails with AlreadyUsed when the transport reports the index as
\* configured, whatever the size; otherwise with InvalidParam when the size
\* is not a power of two (0 included) or exceeds the transport's maximum; a
\* failure of either kind registers nothing with the transport and leaves
\* the queue as it was; a success registers the queue and starts it with
\* num_used, free_head, avail_idx and last_used_idx at 0; and new on the
\* index of a queue that was created fails with AlreadyUsed.
C14_NewOutcomes ==
    /\ [][NewReturns =>
            LET idx == op'.args[1]
                size == op'.args[2]
                bad_size == \/ \A k \in 0 .. 15 : size # 2 ^ k
                            \/ size > transport.max
            IN /\ idx \in transport.queues => op'.res = "AlreadyUsed"
               /\ idx \notin transport.queues /\ bad_size =>
                     op'.res = "InvalidParam"
               /\ op'.res \in {"AlreadyUsed", "InvalidParam"} =>
                     UNCHANGED <<transport, created, queue_idx, DriverState>>
               /\ op'.res = "Ok" =>
                     /\ idx \in transport'.queues
                     /\ created' /\ queue_idx' = idx /\ queue_size' = size
                     /\ num_used' = 0 /\ free_head' = 0
                     /\ avail_idx' = 0 /\ last_used_idx' = 0]_vars
    /\ [][NewReturns /\ created /\ op'.args[1] = queue_idx =>
            op'.res = "AlreadyUsed"]_vars

\* A second new on the index of the created queue, with a size that is not
\* a power of two, returned AlreadyUsed.
C14_Witness ==
    /\ op.fn = "new" /\ op.res = "AlreadyUsed"
    /\ created /\ op.args[1] = queue_idx
    /\ ~is_power_of_two(op.args[2])
    /\ num_used = 0 /\ free_head = 0 /\ avail_idx = 0 /\ last_used_idx = 0

\* C15: add with no input and no output returns InvalidParam in every state,
\* a full queue included, and changes nothing: the queue's fields, the
\* descriptors, the available ring and its idx, the shared buffers and the
\* caller's chains are as before, and no fatal error is raised.
C15_EmptyAddRejected ==
    [][AddReturns /\ op'.args[1] = 0 =>
        /\ op'.res = "InvalidParam"
        /\ avail'.idx = avail.idx /\ avail'.ring = avail.ring
        /\ UNCHANGED DriverState
        /\ UNCHANGED <<panicked, budget, transport>>]_vars

\* An empty add was rejected with InvalidParam while the queue was full.
C15_Witness ==
    /\ Quiescent /\ op.fn = "add" /\ op.args[1] = 0
    /\ op.res = "InvalidParam"
    /\ queue_size = 2 /\ num_used = queue_size /\ avail.idx = 2

\* add_notify_wait_pop is between the start of its add and its return.
InWait ==
    \/ pc # "idle"
    \/ op.fn \in {"notify", "can_pop"}
    \/ op.fn = "add" /\ op.res = "Ok"

\* add_notify_wait_pop has returned Ok.
WaitReturned ==
    /\ ~InWait
    /\ op.fn = "pop_used" /\ op.res = "Ok" /\ op.args[1] = loc.head
    /\ num_used = 0 /\ chains = << >>

\* C16: when nothing else is outstanding and the device completes what is
\* published, add_notify_wait_pop terminates: it is entered with nothing
\* outstanding; it calls notify only once avail.idx in memory counts the
\* chain, whose head is in the slot the device reads; it calls pop_used only
\* after can_pop returned true; that pop_used returns Ok with the length
\* the device wrote for that same chain and leaves num_used at 0, its value
\* before the call; it returns in no other way and no call it makes fails
\* fatally; and every call that submitted a chain does return, unless the
\* device itself fails.
C16_WaitTerminates ==
    /\ [][~InWait /\ InWait' => num_used = 0 /\ chains = << >>]_vars
    /\ [][transport'.notified # transport.notified =>
            /\ transport'.notified = transport.notified + 1
            /\ loc.head \in DOMAIN chains
            /\ sb = << >>
            /\ avail.idx = wrapping_add1(chains[loc.head].at)
            /\ avail.ring[BitAnd(chains[loc.head].at, queue_size - 1)] = loc.head
            /\ transport.notified = chains[loc.head].at]_vars
    /\ [][PopReturns =>
            /\ op.fn = "can_pop" /\ op.ret = 1
            /\ op'.res = "Ok" /\ op'.args[1] = loc.head
            /\ done # << >> /\ Head(done).id = loc.head
            /\ op'.ret = Head(done).len
            /\ num_used' = 0]_vars
    /\ [][InWait /\ ~InWait' => PopReturns /\ WaitReturned']_vars
    /\ [](op.res # "Panic")
    /\ InWait ~> (WaitReturned \/ (panicked /\ op.res # "Panic"))

\* add_notify_wait_pop returned the length the device wrote for a chain of
\* one input and one output, after it had to spin.
C16_Witness ==
    /\ Quiescent /\ WaitReturned
    /\ Len(op.aux.ins) = 1 /\ Len(op.aux.outs) = 1
    /\ op.ret = MaxData
    /\ transport.notified = 1

\* What the Hal holds for the buffers of one chain: each input shared as
\* driver-to-device and each output as device-to-driver, at the address
\* share returned for it.
Pairing(ins, outs) ==
    {<<share(ins[i]), ins[i], DriverToDevice>> : i \in 1 .. Len(ins)}
    \cup {<<share(outs[i]), outs[i], DeviceToDriver>> : i \in 1 .. Len(outs)}

\* C17: share and unshare pair one to one.  A successful add shares exactly
\* its buffers, none of which was shared; the successful pop_used of a chain
\* unshares exactly that chain's buffers, each at the address share returned
\* and in its direction, one per descriptor released; nothing else changes
\* what is shared; and between calls the buffers shared are those of the
\* chains in flight, num_used of them.
C17_SharePairs ==
    /\ [](Quiescent =>
            /\ Cardinality(shared) = num_used
            /\ shared = UNION {Pairing(chains[h].ins, chains[h].outs) :
                                 h \in DOMAIN chains})
    /\ [][AddReturns /\ op'.res = "Ok" =>
            LET own == Pairing(op'.aux.ins, op'.aux.outs)
            IN /\ own \cap shared = {}
               /\ shared' = shared \cup own
               /\ Cardinality(own) = op'.args[1]]_vars
    /\ [][PopReturns /\ op'.res = "Ok" =>
            LET t == op'.args[1]
                own == Pairing(chains[t].ins, chains[t].outs)
            IN /\ own \subseteq shared
               /\ shared' = shared \ own
               /\ Cardinality(own) = Len(chains[t].all)
               /\ num_used' = num_used - Cardinality(own)]_vars
    /\ [][shared' # shared =>
            \/ AddReturns /\ op'.res = "Ok"
            \/ PopReturns /\ op'.res \in {"Ok", "Panic"}]_vars

\* The second of two chains was popped: its input and its output are no
\* longer shared, and nothing else is.
C17_Witness ==
    /\ Quiescent /\ op.fn = "pop_used" /\ op.res = "Ok"
    /\ Len(op.aux.ins) = 1 /\ Len(op.aux.outs) = 1
    /\ last_used_idx = 2
    /\ shared = {} /\ num_used = 0

\* C18: when pop_used is called with the token of the used element at
\* last_used_idx and a new element is there, but with a number of buffers
\* that differs from the length of that descriptor chain (fewer, more or
\* none), the call fails fatally: it returns neither Ok nor an error.  With
\* the right number it does not fail.
C18_LengthMismatchPanics ==
    [][/\ PopReturns
       /\ last_used_idx # used.idx
       /\ op'.args[1] = used.ring[BitAnd(last_used_idx, queue_size - 1)].id
       =>
       LET chain == ChainFrom(desc, op'.args[1], queue_size + 1)
           given == Len(op'.aux.ins) + Len(op'.aux.outs)
       IN /\ op'.res \in {"Ok", "Panic"}
          /\ op'.res = "Panic" <=> given # Len(chain)
          /\ op'.res = "Panic" => panicked' /\ last_used_idx' = last_used_idx
      ]_vars

\* pop_used was given two buffers for a completed chain of one descriptor
\* and failed fatally.
C18_Witness ==
    /\ op.fn = "pop_used" /\ op.res = "Panic" /\ panicked
    /\ Len(op.aux.ins) + Len(op.aux.outs) = 2
    /\ Len(ChainFrom(desc, op.args[1], queue_size + 1)) = 1
    /\ op.args[1] \in DOMAIN chains /\ Len(chains[op.args[1]].all) = 1

\* C19: a successful pop_used of chain A makes A's head the free_head, links
\* A's tail to the free_head of before and keeps the links inside A, so that
\* A's descriptors head the free list; it leaves every field of every
\* descriptor outside A as it was, those of the other chains in flight among
\* them, and leaves the available ring, avail.idx and avail_idx unchanged.
C19_PopFrame ==
    [][PopReturns /\ op'.res = "Ok" =>
        LET A == op'.args[1]
            chainA == ChainFrom(desc, A, queue_size + 1)
            tail == chainA[Len(chainA)]
        IN /\ free_head' = A
           /\ desc'[tail].next = free_head
           /\ \A i \in 1 .. Len(chainA) - 1 :
                 desc'[chainA[i]].next = chainA[i + 1]
           /\ \A h \in DOMAIN chains \ {A} :
                 \A j \in 1 .. Len(ChainFrom(desc, h, queue_size + 1)) :
                     LET i == ChainFrom(desc, h, queue_size + 1)[j]
                     IN /\ \A k \in 1 .. Len(chainA) : chainA[k] # i
                        /\ desc'[i].addr = desc[i].addr
                        /\ desc'[i].len = desc[i].len
                        /\ desc'[i].flags = desc[i].flags
                        /\ desc'[i].next = desc[i].next
           /\ \A i \in DOMAIN desc :
                 (\A k \in 1 .. Len(chainA) : chainA[k] # i) => desc'[i] = desc[i]
           /\ avail'.ring = avail.ring /\ avail'.idx = avail.idx
           /\ avail_idx' = avail_idx]_vars

\* A chain of two descriptors was popped while a chain of one is in flight
\* and the free_head of before was not descriptor 0.
C19_Witness ==
    /\ Quiescent /\ op.fn = "pop_used" /\ op.res = "Ok"
    /\ Len(op.aux.ins) + Len(op.aux.outs) = 2
    /\ free_head = op.args[1]
    /\ DOMAIN chains # {} /\ num_used = 1
    /\ \E i \in DOMAIN desc :
          /\ i # free_head /\ desc[free_head].next = i
          /\ desc[i].next # 0

\* C20: avail.idx in memory is never decremented.  It changes only inside an
\* add that has passed its checks, to one more modulo 2^16, which is the
\* driver's avail_idx; a successful add returns with it one past, modulo
\* 2^16, what it was when add was called; a failed add, can_pop, peek_used
\* and pop_used leave it and avail_idx unchanged; and whenever no add is in
\* progress it equals avail_idx.
C20_AvailIdxMonotone ==
    /\ [](avail.idx \in 0 .. U16 - 1)
    /\ [](pc = "idle" => avail.idx = avail_idx)
    /\ [][avail'.idx # avail.idx =>
            /\ pc = "return" /\ pc' = "return"
            /\ avail'.idx = (avail.idx + 1) % U16
            /\ avail'.idx = avail_idx]_vars
    /\ [][pc = "idle" /\ pc' # "idle" => loc'.at = avail.idx]_vars
    /\ [][pc # "idle" /\ pc' = "idle" =>
            /\ op'.fn = "add" /\ op'.res = "Ok"
            /\ avail'.idx = (loc.at + 1) % U16]_vars
    /\ [][/\ op' # op
          /\ \/ op'.fn \in {"can_pop", "peek_used", "pop_used"}
             \/ op'.fn = "add" /\ op'.res # "Ok"
          => avail' = avail /\ avail_idx' = avail_idx]_vars

\* A successful add took avail.idx from 2^16 - 1 to 0, and a pop_used that
\* followed left it there.
C20_Witness ==
    /\ Quiescent /\ avail.idx = 0 /\ avail_idx = 0
    /\ loc.at = U16 - 1
    /\ op.fn = "pop_used" /\ op.res = "Ok"
    /\ last_used_idx = U16 - 1

\* The descriptors of the chain in flight under token h.
ChainDescs(h) == Range(ChainFrom(desc, h, queue_size + 1))

\* C21: a successful add never takes a descriptor of a chain in flight.
\* Between calls the chains in flight have pairwise disjoint descriptor sets,
\* each of as many descriptors as the chain has buffers, and none of them is
\* among the first available_desc() entries of the free list; a successful
\* add returns a token no chain in flight has, and the descriptors of the
\* new chain were among those free entries and in no chain in flight.
C21_NoDescriptorReuse ==
    /\ [](Quiescent =>
            /\ \A h \in DOMAIN chains :
                  /\ Cardinality(ChainDescs(h)) = Len(chains[h].all)
                  /\ ChainDescs(h) \subseteq 0 .. queue_size - 1
                  /\ ChainDescs(h)
                        \cap Range(FreeWalk(free_head, available_desc)) = {}
            /\ \A h, g \in DOMAIN chains :
                  h # g => ChainDescs(h) \cap ChainDescs(g) = {})
    /\ [][AddReturns /\ op'.res = "Ok" =>
            LET taken == Range(ChainFrom(desc', op'.ret, queue_size + 1))
            IN /\ op'.ret \notin DOMAIN chains
               /\ Cardinality(taken) = op'.args[1]
               /\ taken \subseteq Range(FreeWalk(free_head, available_desc))
               /\ \A h \in DOMAIN chains : taken \cap ChainDescs(h) = {}]_vars

\* With two chains in flight and the free list empty, the second was
\* completed and popped before the first, and a chain was added again on
\* its descriptor while the first is still in flight.
C21_Witness ==
    /\ Quiescent /\ queue_size = 2
    /\ op.fn = "add" /\ op.res = "Ok"
    /\ avail_idx = 3 /\ last_used_idx = 1 /\ num_used = 2
    /\ DOMAIN chains = {0, 1}
    /\ chains[0].at = 0 /\ chains[1].at = 2

\* Chains published and not yet completed by the device.
NotCompleted ==
    {h \in DOMAIN chains : \A j \in 1 .. Len(done) : done[j].id # h}

\* C22: a successful add never overwrites an available-ring slot whose chain
\* head the device has not consumed.  When add writes the ring, fewer than
\* queue_size chains are published and not completed, fewer than queue_size
\* entries are unconsumed, the only slot written is avail_idx & (Q - 1),
\* which then holds the new head, and the slot of every unconsumed entry
\* keeps the head of the chain published there.
C22_NoSlotOverwrite ==
    [][AddReturns /\ op'.res = "Ok" =>
        LET unconsumed == Ahead(Consumed, avail_idx)
            slot == BitAnd(avail_idx, queue_size - 1)
        IN /\ Cardinality(NotCompleted) < queue_size
           /\ unconsumed < queue_size
           /\ avail'.ring[slot] = op'.ret
           /\ \A i \in DOMAIN avail.ring :
                 i # slot => avail'.ring[i] = avail.ring[i]
           /\ \A j \in 0 .. unconsumed - 1 :
                 LET k == (Consumed + j) % U16
                     at_k == BitAnd(k, queue_size - 1)
                 IN /\ at_k # slot
                    /\ avail'.ring[at_k] = avail.ring[at_k]
                    /\ \E h \in DOMAIN chains :
                          chains[h].at = k /\ avail'.ring[at_k] = h]_vars

\* The queue of size 2 was filled by an add into slot 1 while the chain in
\* slot 0 had not been consumed, after an earlier chain was completed and
\* popped.
C22_Witness ==
    /\ Quiescent /\ queue_size = 2 /\ dev.kind = "any"
    /\ op.fn = "add" /\ op.res = "Ok"
    /\ avail_idx = 4 /\ dev.next = 2 /\ last_used_idx = 2
    /\ DOMAIN chains = {0, 1} /\ num_used = 2
    /\ chains[avail.ring[0]].at = 2
    /\ chains[avail.ring[1]].at = 3

====
